---------------------------- MODULE Spec2Model ----------------------------
(***************************************************************************)
(* Model of the smart-glasses backend: the scene journal and daily recap   *)
(* (scene_service.py), the face store (face_detection.py), the OCR adapter *)
(* (ocr_service.py) and the HTTP entry points (main.py).                   *)
(*                                                                         *)
(* Text is modelled as a sequence of tokens, so that f-strings are         *)
(* concatenations and `"429" in str(e)` is a sub-sequence search.          *)
(***************************************************************************)
EXTENDS Integers, Sequences, FiniteSets, TLC

VARIABLES
    now,                 \* the wall clock read by datetime.now()
    sceneDir,            \* os.listdir(scenes_dir): the stored scene files
    pc,                  \* position of the running get_daily_recap call
    entry,               \* entry point that started the recap
    scenes,              \* get_daily_recap: local `scenes`
    idx,                 \* get_daily_recap: index of the scene being analysed
    scene_descriptions,  \* get_daily_recap: local `scene_descriptions`
    log,                 \* generation calls and sleeps of the current recap
    result,              \* what the last get_daily_recap call returned
    faces,               \* the faces directory: file name -> image
    saved,               \* per identity, the image of the last add_face that returned True
    worker,              \* the save_face requests in flight
    req,                 \* the last request served, with what its backends did
    invoked,             \* adapter operations called while serving req
    resp                 \* the HTTP response to req

vars == <<now, sceneDir, pc, entry, scenes, idx, scene_descriptions, log,
          result, faces, saved, worker, req, invoked, resp>>

recapVars == <<pc, entry, scenes, idx, scene_descriptions, log, result>>
faceVars  == <<faces, saved, worker>>

----------------------------------------------------------------------------
(* Bounds *)

MaxClock == 3        \* instants the clock can show
MaxWorkers == 2      \* concurrent save_face requests

(* Program constants *)

InterCallDelay == 5
RetryBackoff == 30

\* instants of the clock in one day: the last instant is the next day
TicksPerDay == MaxClock - 1

----------------------------------------------------------------------------
(* Text *)

None == <<"None">>

Digit(n) == <<"0", "1", "2", "3", "4", "5", "6", "7", "8", "9">>[n + 1]

\* str.startswith
startswith(s, prefix) ==
    /\ Len(prefix) <= Len(s)
    /\ SubSeq(s, 1, Len(prefix)) = prefix

\* the `in` operator on strings
contains(s, sub) ==
    \E i \in 1..(Len(s) - Len(sub) + 1) : SubSeq(s, i, i + Len(sub) - 1) = sub

\* datetime.now().strftime("%Y%m%d"), two digits of day number
strftime_date(t) ==
    LET day == ((t - 1) \div TicksPerDay) + 1
    IN  <<Digit((day \div 10) % 10), Digit(day % 10)>>

\* datetime.now().strftime("%Y%m%d_%H%M%S"), one digit of seconds
strftime_stamp(t) ==
    strftime_date(t) \o <<"_", Digit((t - 1) % TicksPerDay)>>

----------------------------------------------------------------------------
(* HTTP *)

HTTPException(status_code, detail) ==
    [code |-> status_code, detail |-> detail]

Response(body) == [code |-> 200, body |-> body]

\* str(e) of an HTTPException
str_HTTPException(e) == <<Digit(e.code \div 100), Digit((e.code \div 10) % 10),
                          Digit(e.code % 10), ": ">> \o e.detail

NoResp == [code |-> 0]

----------------------------------------------------------------------------
(* The external generator *)

Texts == {<<"t1">>, <<"t2">>}

ExcMsgs == { <<"e", "4", "2", "9", " ", "q">>,
             <<"5", "0", "0">>,
             <<"4", "2", "8">> }

GenOutcomes == [ok : {TRUE}, text : Texts] \cup [ok : {FALSE}, e : ExcMsgs]

\* a rate-limit test that looks only at the start of the message
is_rate_limit_prefix(e) == startswith(e, <<"4", "2", "9">>)

\* scene_service.py:111 and :151, `"429" in str(e)`
is_rate_limit(e) == contains(e, <<"4", "2", "9">>)

----------------------------------------------------------------------------
(* scene_service.py *)

NoResult == [status |-> "none"]

SceneFile(stamp) == <<"scene_">> \o stamp \o <<".jpg">>

\* SceneService.save_screenshot; net is what requests.get did
save_screenshot(dir, t, net) ==
    LET timestamp == strftime_stamp(t)
        filepath == SceneFile(timestamp)
    IN  IF net.raised
        THEN [dir |-> dir, ret |-> [status |-> "error", message |-> net.e]]
        ELSE IF net.status_code = 200
        THEN [dir |-> IF \E i \in 1..Len(dir) : dir[i] = filepath
                      THEN dir ELSE Append(dir, filepath),
              ret |-> [status |-> "success", filepath |-> filepath,
                       timestamp |-> timestamp]]
        ELSE [dir |-> dir,
              ret |-> [status |-> "error",
                       message |-> <<"Failed to download image">>]]

\* a listing that ignores the date
get_daily_scenes_any_date(dir, t, date) == dir

\* SceneService.get_daily_scenes
get_daily_scenes(dir, t, date) ==
    LET d == IF date = None THEN strftime_date(t) ELSE date
    IN  SelectSeq(dir, LAMBDA filename : startswith(filename, <<"scene_">> \o d))

POV == <<"Describe this scene in detail",
         " from my own point of view, as they are my experiences. Use pronouns like 'You' and 'Your'",
         ":">>
PLAIN == <<"Describe this scene in detail", ":">>

\* the combined_prompt of get_daily_recap
RECURSIVE numbered(_, _)
numbered(descs, i) ==
    IF i > Len(descs) THEN <<>>
    ELSE <<"Scene ", Digit(i % 10), ":\n">> \o descs[i] \o <<"\n\n">>
         \o numbered(descs, i + 1)

combined_prompt(descs) == <<"Here are descriptions of several scenes">> \o numbered(descs, 1)

Gen(prompt, image, out) ==
    [ev |-> "generate", prompt |-> prompt, image |-> image, out |-> out]
Sleep(secs) ==
    [ev |-> "sleep", prompt |-> <<>>, image |-> None, out |-> [ok |-> TRUE, text |-> <<>>],
     secs |-> secs]

Error(message) == [status |-> "error", message |-> message]

----------------------------------------------------------------------------
(* main.py: how a handler turns an adapter's dict into the HTTP response *)

\* main.py:268-269, the blanket handler of process_query
query_except(e_str) == HTTPException(500, e_str)

\* main.py:164-167, 172-175, 180-183: the direct scene endpoints
scene_endpoint(res) ==
    IF res.status = "error" THEN HTTPException(400, res.message)
    ELSE Response(res)

\* main.py:241-264: the scene branches of process_query; the HTTPException
\* raised inside the try block is caught by the blanket handler
query_scene_branch(function, res) ==
    IF res.status = "error"
    THEN query_except(str_HTTPException(HTTPException(400, res.message)))
    ELSE Response([function |-> function, result |-> res])

recap_response(e, res) ==
    IF e = "query" THEN query_scene_branch("get_daily_recap", res)
    ELSE scene_endpoint(res)

----------------------------------------------------------------------------
(* SceneService.get_daily_recap, one action per external call *)

DateArgs == {None, <<"0">>, <<"0", "1">>, <<"0", "9">>}

\* the return statements of get_daily_recap, up to the HTTP response
recap_return(e, res) ==
    /\ result' = res
    /\ pc' = "done"
    /\ resp' = recap_response(e, res)

\* scene_service.py:91 and 133-134: next scene, or leave the loop
recap_advance(descs) ==
    IF idx < Len(scenes)
    THEN /\ idx' = idx + 1
         /\ pc' = "scene"
         /\ UNCHANGED <<result, resp>>
    ELSE IF descs = <<>>
    THEN /\ idx' = idx
         /\ recap_return(entry, Error(<<"Failed to analyze any scenes">>))
    ELSE /\ idx' = idx
         /\ pc' = "summary"
         /\ UNCHANGED <<result, resp>>

\* scene_service.py:80-90 behind /daily_recap (main.py:177-183) or behind
\* the get_daily_recap branch of /query (main.py:257-264)
recap_begin(e, date) ==
    /\ pc \in {"idle", "done"}
    /\ entry' = e
    /\ req' = [endpoint |-> e, function |-> "get_daily_recap", date |-> date,
               today |-> strftime_date(now)]
    /\ scenes' = get_daily_scenes(sceneDir, now, date)
    /\ scene_descriptions' = <<>>
    /\ log' = <<>>
    /\ idx' = 1
    /\ IF scenes' = <<>>
       THEN /\ recap_return(e, Error(<<"No scenes found for the specified date">>))
            /\ invoked' = {"get_daily_recap"}
       ELSE /\ pc' = "scene"
            /\ result' = NoResult
            /\ resp' = NoResp
            /\ invoked' = {"get_daily_recap"}
    /\ UNCHANGED <<now, sceneDir, faceVars>>

\* scene_service.py:92-112 and 130-131: the first attempt on scenes[idx]
recap_scene(out) ==
    /\ pc = "scene"
    /\ IF out.ok
       THEN /\ scene_descriptions' = Append(scene_descriptions, out.text)
            /\ log' = log \o <<Gen(POV, scenes[idx], out), Sleep(InterCallDelay)>>
            /\ recap_advance(scene_descriptions')
       ELSE IF is_rate_limit(out.e)
       THEN /\ log' = log \o <<Gen(POV, scenes[idx], out), Sleep(RetryBackoff)>>
            /\ pc' = "retry"
            /\ UNCHANGED <<scene_descriptions, idx, result, resp>>
       ELSE /\ log' = Append(log, Gen(POV, scenes[idx], out))
            /\ recap_return(entry, Error(<<"Failed to analyze scene: ">> \o out.e))
            /\ UNCHANGED <<scene_descriptions, idx>>
    /\ UNCHANGED <<now, sceneDir, entry, scenes, faceVars, req, invoked>>

\* a retry that skips the scene when it fails again
recap_retry_skip(out) ==
    /\ pc = "retry"
    /\ log' = Append(log, Gen(PLAIN, scenes[idx], out))
    /\ scene_descriptions' =
          IF out.ok THEN Append(scene_descriptions, out.text) ELSE scene_descriptions
    /\ recap_advance(scene_descriptions')
    /\ UNCHANGED <<now, sceneDir, entry, scenes, faceVars, req, invoked>>

\* scene_service.py:113-129: the retry of scenes[idx]
recap_retry(out) ==
    /\ pc = "retry"
    /\ log' = Append(log, Gen(PLAIN, scenes[idx], out))
    /\ IF out.ok
       THEN /\ scene_descriptions' = Append(scene_descriptions, out.text)
            /\ recap_advance(scene_descriptions')
       ELSE /\ recap_return(entry, Error(<<"Failed to analyze scene after retry: ">> \o out.e))
            /\ UNCHANGED <<scene_descriptions, idx>>
    /\ UNCHANGED <<now, sceneDir, entry, scenes, faceVars, req, invoked>>

\* scene_service.py:167-172
recap_success(text) ==
    [status |-> "success", description |-> text, source |-> "daily_recap",
     scenes_used |-> scenes]

\* scene_service.py:136-152 and 164-165: the summarizing call
recap_summary(out) ==
    /\ pc = "summary"
    /\ IF out.ok
       THEN /\ log' = Append(log, Gen(combined_prompt(scene_descriptions), None, out))
            /\ recap_return(entry, recap_success(out.text))
       ELSE IF is_rate_limit(out.e)
       THEN /\ log' = log \o <<Gen(combined_prompt(scene_descriptions), None, out),
                               Sleep(RetryBackoff)>>
            /\ pc' = "summary_retry"
            /\ UNCHANGED <<result, resp>>
       ELSE /\ log' = Append(log, Gen(combined_prompt(scene_descriptions), None, out))
            /\ recap_return(entry, Error(<<"Failed to generate summary: ">> \o out.e))
    /\ UNCHANGED <<now, sceneDir, entry, scenes, idx, scene_descriptions,
                   faceVars, req, invoked>>

\* a summary retry that backs off and tries again after another rate limit
recap_summary_retry_again(out) ==
    /\ pc = "summary_retry"
    /\ IF out.ok
       THEN /\ log' = Append(log, Gen(combined_prompt(scene_descriptions), None, out))
            /\ recap_return(entry, recap_success(out.text))
       ELSE IF is_rate_limit(out.e)
       THEN /\ log' = log \o <<Gen(combined_prompt(scene_descriptions), None, out),
                               Sleep(RetryBackoff)>>
            /\ UNCHANGED <<pc, result, resp>>
       ELSE /\ log' = Append(log, Gen(combined_prompt(scene_descriptions), None, out))
            /\ recap_return(entry, Error(<<"Failed to generate summary after retry: ">> \o out.e))
    /\ UNCHANGED <<now, sceneDir, entry, scenes, idx, scene_descriptions,
                   faceVars, req, invoked>>

\* scene_service.py:153-163: the retry of the summarizing call
recap_summary_retry(out) ==
    /\ pc = "summary_retry"
    /\ log' = Append(log, Gen(combined_prompt(scene_descriptions), None, out))
    /\ IF out.ok
       THEN recap_return(entry, recap_success(out.text))
       ELSE recap_return(entry, Error(<<"Failed to generate summary after retry: ">> \o out.e))
    /\ UNCHANGED <<now, sceneDir, entry, scenes, idx, scene_descriptions,
                   faceVars, req, invoked>>

----------------------------------------------------------------------------
(* The clock and the scene journal *)

Tick ==
    /\ now < MaxClock
    /\ now' = now + 1
    /\ UNCHANGED <<sceneDir, recapVars, faceVars, req, invoked, resp>>

NetOutcomes == [raised : {FALSE}, status_code : {200, 404}]
               \cup [raised : {TRUE}, e : {<<"Connection refused">>}]

\* main.py:161-167, POST /save_screenshot
save_screenshot_endpoint(net) ==
    /\ pc \in {"idle", "done"}
    /\ LET r == save_screenshot(sceneDir, now, net)
       IN  /\ sceneDir' = r.dir
           /\ resp' = scene_endpoint(r.ret)
    /\ req' = [endpoint |-> "save_screenshot", function |-> "save_screenshot",
               net |-> net]
    /\ invoked' = {"save_screenshot"}
    /\ UNCHANGED <<now, recapVars, faceVars>>

----------------------------------------------------------------------------
(* face_detection.py *)

Images == {"imgA", "imgB"}
Identities == {<<"J", "P">>, <<"A", ".", "b">>}

\* what requests.get, raise_for_status and Image.open did with the URL
ImgNet == [ok : {TRUE}, image : Images] \cup [ok : {FALSE}, image : {"none"}]

\* FaceRecognitionClass._download_image: the image array, or None
download_image(net) == IF net.ok THEN <<net.image>> ELSE None

\* a path that does not depend on the identity
FacePathFixed(identity) == <<"faces/", "face", ".jpg">>

\* face_detection.py:102, os.path.join(self.faces_dir, f"{identity}.jpg")
FacePath(identity) == <<"faces/">> \o identity \o <<".jpg">>

\* face_detection.py:103, Image.fromarray(image).save(save_path): the file
Jpeg(image) == [format |-> "JPEG", pixels |-> image[1]]

\* face_detection.py:100-107: the save of a downloaded image; io is whether
\* the write went through
add_face_save(store, image, identity, io) ==
    IF io = "ok"
    THEN [faces |-> {f \in store : f.path # FacePath(identity)}
                    \cup {[path |-> FacePath(identity), file |-> Jpeg(image)]},
          ret |-> TRUE]
    ELSE [faces |-> store, ret |-> FALSE]

\* FaceRecognitionClass.add_face
add_face(store, net, identity, io) ==
    LET image == download_image(net)
    IN  IF image = None THEN [faces |-> store, ret |-> FALSE]
        ELSE add_face_save(store, image, identity, io)

\* os.path.basename(path).split('.')[0]
RECURSIVE before_dot(_)
before_dot(name) ==
    IF name = <<>> \/ Head(name) = "." \/ Head(name) = ".jpg" THEN <<>>
    ELSE <<Head(name)>> \o before_dot(Tail(name))

basename(path) == Tail(path)

\* distances reported by the matcher, in hundredths
Distances == {10, 40}

Rows(store) == [identity : {f.path : f \in store}, distance : Distances]

\* one frame per face found in the image: the gallery rows that match it,
\* nearest first
Frames(store) ==
    {<<>>} \cup {<<r>> : r \in Rows(store)}
    \cup {p \in Rows(store) \X Rows(store) : /\ p[1].identity # p[2].identity
                                              /\ p[1].distance <= p[2].distance}

\* what DeepFace.find did: it raised, or it returned a list of frames
MatcherOutcomes(store) ==
    [raised : {TRUE}, results : {<<>>}]
    \cup [raised : {FALSE},
          results : {<<>>} \cup {<<f>> : f \in Frames(store)}
                    \cup {<<f, <<>> >> : f \in Frames(store)}]

\* face_detection.py:65-77
RECURSIVE best_matches(_)
best_matches(results) ==
    IF results = <<>> THEN <<>>
    ELSE (IF Len(Head(results)) > 0
          THEN LET match == Head(results)[1]
               IN  <<[identity |-> before_dot(basename(match.identity)),
                      confidence |-> 100 - match.distance,
                      path |-> match.identity]>>
          ELSE <<>>)
         \o best_matches(Tail(results))

\* FaceRecognitionClass.find_face
find_face(net, found) ==
    IF download_image(net) = None THEN <<>>
    ELSE IF found.raised THEN <<>>
    ELSE best_matches(found.results)

----------------------------------------------------------------------------
(* save_face requests, each in two steps: the download, then the write *)

\* the record of the last successful save of each identity
record_save(history, ok, identity, image) ==
    IF ok
    THEN {sv \in history : sv.identity # identity}
         \cup {[identity |-> identity, image |-> image[1]]}
    ELSE history

Idle == [pc |-> "idle", image |-> None, identity |-> <<>>]

\* face_detection.py:96-98 behind main.py:153-159 or main.py:227-233
save_face_download(w, net, identity) ==
    /\ worker[w].pc = "idle"
    /\ LET image == download_image(net)
       IN  worker' = [worker EXCEPT ![w] =
                         IF image = None THEN Idle
                         ELSE [pc |-> "downloaded", image |-> image,
                               identity |-> identity]]
    /\ UNCHANGED <<now, sceneDir, recapVars, faces, saved, req, invoked, resp>>

\* face_detection.py:100-107
save_face_write(w, io) ==
    /\ worker[w].pc = "downloaded"
    /\ LET r == add_face_save(faces, worker[w].image, worker[w].identity, io)
       IN  /\ faces' = r.faces
           /\ saved' = record_save(saved, r.ret, worker[w].identity, worker[w].image)
    /\ worker' = [worker EXCEPT ![w] = Idle]
    /\ UNCHANGED <<now, sceneDir, recapVars, req, invoked, resp>>

NextFaces ==
    \/ \E w \in 1..MaxWorkers, net \in ImgNet, identity \in Identities :
           save_face_download(w, net, identity)
    \/ \E w \in 1..MaxWorkers, io \in {"ok", "fail"} : save_face_write(w, io)

----------------------------------------------------------------------------
(* ocr_service.py *)

\* what requests.get and raise_for_status did with the URL
BytesNet == [ok : {TRUE, FALSE}]

\* str.strip on a line of characters
RECURSIVE lstrip(_)
lstrip(line) ==
    IF line # <<>> /\ Head(line) = " " THEN lstrip(Tail(line)) ELSE line

RECURSIVE rstrip(_)
rstrip(line) ==
    IF line # <<>> /\ line[Len(line)] = " "
    THEN rstrip(SubSeq(line, 1, Len(line) - 1)) ELSE line

strip(line) == rstrip(lstrip(line))

\* str.split('\n'): the lines of a text, as a sequence of lines
RECURSIVE split_lines(_, _)
split_lines(text, cur) ==
    IF text = <<>> THEN <<cur>>
    ELSE IF Head(text) = "\n" THEN <<cur>> \o split_lines(Tail(text), <<>>)
    ELSE split_lines(Tail(text), Append(cur, Head(text)))

\* ocr_service.py:64
RECURSIVE clean_lines(_)
clean_lines(lines) ==
    IF lines = <<>> THEN <<>>
    ELSE (IF strip(Head(lines)) # <<>> THEN <<strip(Head(lines))>> ELSE <<>>)
         \o clean_lines(Tail(lines))

FullTexts == { <<" ", "a", "\n", "\n", "b", " ">>, <<"a">>, <<" ", "\n">> }

\* what text_detection did: it raised, or it returned the annotations, the
\* first of which holds the whole text
OcrOutcomes == [raised : {TRUE}, texts : {<<>>}]
               \cup [raised : {FALSE}, texts : {<<>>} \cup {<<t>> : t \in FullTexts}]

\* OCRService.extract_text
extract_text(net, ocr) ==
    IF ~net.ok THEN <<>>
    ELSE IF ocr.raised THEN <<>>
    ELSE IF ocr.texts = <<>> THEN <<>>
    ELSE clean_lines(split_lines(ocr.texts[1], <<>>))

\* SceneService.describe_scene
describe_scene(out) ==
    IF out.ok
    THEN [status |-> "success", description |-> out.text, source |-> "provided_image"]
    ELSE Error(out.e)

----------------------------------------------------------------------------
(* main.py: the classifier and the handlers that finish in one step *)

FunctionNames == {"recognize_face", "extract_text", "save_face",
                  "save_screenshot", "describe_scene", "get_daily_recap"}

Absent == <<"<absent>">>
Url == <<"http://x/a.jpg">>

\* the args of a function call, Absent for a key the call does not carry
CallArgs == [image_url : {Url, Absent}, identity : Identities \cup {Absent}]

\* what model.generate_content returned for the query: it raised, it
\* returned no candidate, it returned a text part (whose function_call is
\* empty, with the name ""), or it returned a function call
ClassifierOutcomes ==
    [kind : {"raise"}, name : {""}, args : {[image_url |-> Absent, identity |-> Absent]}]
    \cup [kind : {"no_candidates"}, name : {""},
          args : {[image_url |-> Absent, identity |-> Absent]}]
    \cup [kind : {"text"}, name : {""},
          args : {[image_url |-> Absent, identity |-> Absent]}]
    \cup [kind : {"call"},
          name : (FunctionNames \ {"get_daily_recap"}) \cup {"delete_face"},
          args : CallArgs]

ClassifierError == <<"503 unavailable">>

\* repr of the missing key, which is str(KeyError(key))
KeyError(key) == <<"'", key, "'">>

\* the backend step that failed while serving a request
NoFailure == "none"

\* main.py:141-145, POST /recognize_face
recognize_face_endpoint(net, found) ==
    /\ req' = [endpoint |-> "recognize_face", function |-> "recognize_face",
               failed |-> IF ~net.ok THEN "download"
                          ELSE IF found.raised THEN "service" ELSE NoFailure,
               client_error |-> FALSE, no_match |-> FALSE,
               zero_matches |-> net.ok /\ ~found.raised
                                /\ \A i \in DOMAIN found.results : found.results[i] = <<>>]
    /\ invoked' = {"find_face"}
    /\ resp' = Response([matches |-> find_face(net, found)])
    /\ UNCHANGED <<now, sceneDir, recapVars, faceVars>>

\* main.py:147-151, POST /extract_text
extract_text_endpoint(net, ocr) ==
    /\ req' = [endpoint |-> "extract_text", function |-> "extract_text",
               failed |-> IF ~net.ok THEN "download"
                          ELSE IF ocr.raised THEN "service" ELSE NoFailure,
               client_error |-> FALSE, no_match |-> FALSE, zero_matches |-> FALSE]
    /\ invoked' = {"extract_text"}
    /\ resp' = Response([text_lines |-> extract_text(net, ocr)])
    /\ UNCHANGED <<now, sceneDir, recapVars, faceVars>>

FaceSaved(identity) == <<"Face saved as ">> \o identity

\* main.py:153-159, POST /save_face
save_face_endpoint(net, identity, io) ==
    /\ LET r == add_face(faces, net, identity, io)
       IN  /\ faces' = r.faces
           /\ saved' = record_save(saved, r.ret, identity, download_image(net))
           /\ resp' = IF ~r.ret THEN HTTPException(400, <<"Failed to save face">>)
                      ELSE Response([status |-> "success",
                                     message |-> FaceSaved(identity)])
    /\ req' = [endpoint |-> "save_face", function |-> "save_face",
               failed |-> IF ~net.ok THEN "download"
                          ELSE IF io # "ok" THEN "save" ELSE NoFailure,
               client_error |-> FALSE, no_match |-> FALSE, zero_matches |-> FALSE]
    /\ invoked' = {"add_face"}
    /\ UNCHANGED <<now, sceneDir, recapVars, worker>>

\* main.py:169-175, POST /describe_scene
describe_scene_endpoint(out) ==
    /\ req' = [endpoint |-> "describe_scene", function |-> "describe_scene",
               failed |-> IF out.ok THEN NoFailure ELSE "service",
               client_error |-> FALSE, no_match |-> FALSE, zero_matches |-> FALSE]
    /\ invoked' = {"describe_scene"}
    /\ resp' = scene_endpoint(describe_scene(out))
    /\ UNCHANGED <<now, sceneDir, recapVars, faceVars>>

\* what the backends of one /query request did; a branch reads only its own
DefaultEnv(store) ==
    [net |-> [ok |-> FALSE, image |-> "none"],
     found |-> [raised |-> TRUE, results |-> <<>>],
     bnet |-> [ok |-> FALSE],
     ocr |-> [raised |-> TRUE, texts |-> <<>>],
     io |-> "fail",
     shot |-> [raised |-> TRUE, e |-> <<"Connection refused">>],
     out |-> [ok |-> FALSE, e |-> <<"5", "0", "0">>]]

QueryEnvs(cls, store) ==
    LET d == DefaultEnv(store)
    IN  IF cls.kind # "call" THEN {d}
        ELSE IF cls.name = "recognize_face" /\ cls.args.image_url # Absent
        THEN {[d EXCEPT !.net = n, !.found = f] :
                  n \in ImgNet, f \in MatcherOutcomes(store)}
        ELSE IF cls.name = "extract_text" /\ cls.args.image_url # Absent
        THEN {[d EXCEPT !.bnet = n, !.ocr = o] : n \in BytesNet, o \in OcrOutcomes}
        ELSE IF /\ cls.name = "save_face"
                /\ cls.args.image_url # Absent /\ cls.args.identity # Absent
        THEN {[d EXCEPT !.net = n, !.io = i] : n \in ImgNet, i \in {"ok", "fail"}}
        ELSE IF cls.name = "save_screenshot" /\ cls.args.image_url # Absent
        THEN {[d EXCEPT !.shot = n] : n \in NetOutcomes}
        ELSE IF cls.name = "describe_scene" /\ cls.args.image_url # Absent
        THEN {[d EXCEPT !.out = o] : o \in GenOutcomes}
        ELSE {d}

Found(n) == <<"Found ", Digit(n % 10), " potential matches">>

Unchanged(store, dir, response, calls, failure) ==
    [faces |-> store, dir |-> dir, resp |-> response, invoked |-> calls,
     failed |-> failure, saved |-> FALSE]

\* main.py:203-217
query_recognize_face(cls, env, store, dir) ==
    IF cls.args.image_url = Absent
    THEN Unchanged(store, dir, query_except(KeyError("image_url")), {}, NoFailure)
    ELSE LET matches == find_face(env.net, env.found)
             failure == IF ~env.net.ok THEN "download"
                        ELSE IF env.found.raised THEN "service" ELSE NoFailure
         IN  IF matches = <<>>
             THEN Unchanged(store, dir,
                      Response([function |-> "recognize_face",
                                result |-> [status |-> "not_found",
                                            message |-> <<"No matching faces found in the database">>]]),
                      {"find_face"}, failure)
             ELSE Unchanged(store, dir,
                      Response([function |-> "recognize_face",
                                result |-> [status |-> "success",
                                            matches |-> matches,
                                            message |-> Found(Len(matches))]]),
                      {"find_face"}, failure)

\* main.py:218-226
query_extract_text(cls, env, store, dir) ==
    IF cls.args.image_url = Absent
    THEN Unchanged(store, dir, query_except(KeyError("image_url")), {}, NoFailure)
    ELSE Unchanged(store, dir,
             Response([function |-> "extract_text",
                       result |-> [status |-> "success",
                                   text |-> extract_text(env.bnet, env.ocr)]]),
             {"extract_text"},
             IF ~env.bnet.ok THEN "download"
             ELSE IF env.ocr.raised THEN "service" ELSE NoFailure)

\* main.py:227-240
query_save_face(cls, env, store, dir) ==
    IF cls.args.image_url = Absent
    THEN Unchanged(store, dir, query_except(KeyError("image_url")), {}, NoFailure)
    ELSE IF cls.args.identity = Absent
    THEN Unchanged(store, dir, query_except(KeyError("identity")), {}, NoFailure)
    ELSE LET r == add_face(store, env.net, cls.args.identity, env.io)
         IN  [faces |-> r.faces, dir |-> dir, saved |-> r.ret,
              resp |-> IF ~r.ret
                       THEN query_except(str_HTTPException(
                                HTTPException(400, <<"Failed to save face">>)))
                       ELSE Response([function |-> "save_face",
                                      result |-> [status |-> "success",
                                                  message |-> FaceSaved(cls.args.identity)]]),
              invoked |-> {"add_face"},
              failed |-> IF ~env.net.ok THEN "download"
                         ELSE IF env.io # "ok" THEN "save" ELSE NoFailure]

\* main.py:241-248
query_save_screenshot(cls, env, store, dir, t) ==
    IF cls.args.image_url = Absent
    THEN Unchanged(store, dir, query_except(KeyError("image_url")), {}, NoFailure)
    ELSE LET r == save_screenshot(dir, t, env.shot)
         IN  [faces |-> store, dir |-> r.dir, saved |-> FALSE,
              resp |-> query_scene_branch("save_screenshot", r.ret),
              invoked |-> {"save_screenshot"},
              failed |-> IF r.ret.status = "error" THEN "download" ELSE NoFailure]

\* main.py:249-256
query_describe_scene(cls, env, store, dir) ==
    IF cls.args.image_url = Absent
    THEN Unchanged(store, dir, query_except(KeyError("image_url")), {}, NoFailure)
    ELSE Unchanged(store, dir,
             query_scene_branch("describe_scene", describe_scene(env.out)),
             {"describe_scene"},
             IF env.out.ok THEN NoFailure ELSE "service")

\* main.py:265-266, caught at main.py:268-269
unsupported_function(cls, env, store, dir) ==
    Unchanged(store, dir,
        query_except(str_HTTPException(
            HTTPException(400, <<"Unsupported function">>))),
        {}, NoFailure)

\* main.py:188-269 without the get_daily_recap branch
query_outcome(cls, env, store, dir, t) ==
    IF cls.kind = "raise"
    THEN Unchanged(store, dir, query_except(ClassifierError), {}, "service")
    ELSE IF cls.kind = "no_candidates"
    THEN Unchanged(store, dir, query_except(<<"list index out of range">>), {},
                   NoFailure)
    ELSE IF cls.name = "recognize_face" THEN query_recognize_face(cls, env, store, dir)
    ELSE IF cls.name = "extract_text" THEN query_extract_text(cls, env, store, dir)
    ELSE IF cls.name = "save_face" THEN query_save_face(cls, env, store, dir)
    ELSE IF cls.name = "save_screenshot"
    THEN query_save_screenshot(cls, env, store, dir, t)
    ELSE IF cls.name = "describe_scene" THEN query_describe_scene(cls, env, store, dir)
    ELSE unsupported_function(cls, env, store, dir)

\* the classifier returned text instead of a call, or a call outside the
\* closed set
NoMatch(cls) ==
    \/ cls.kind = "text"
    \/ cls.kind = "call" /\ cls.name \notin FunctionNames

\* the classifier named a supported function without a required argument
MissingArgument(cls) ==
    /\ cls.kind = "call"
    /\ \/ cls.name \in FunctionNames /\ cls.args.image_url = Absent
       \/ cls.name = "save_face" /\ cls.args.identity = Absent

\* main.py:185-269, POST /query
process_query(cls, env) ==
    /\ LET r == query_outcome(cls, env, faces, sceneDir, now)
       IN  /\ faces' = r.faces
           /\ saved' = record_save(saved, r.saved, cls.args.identity,
                                   download_image(env.net))
           /\ sceneDir' = r.dir
           /\ resp' = r.resp
           /\ invoked' = r.invoked
           /\ req' = [endpoint |-> "query",
                      function |-> IF cls.name \in FunctionNames THEN cls.name
                                   ELSE "none",
                      failed |-> r.failed,
                      client_error |-> NoMatch(cls) \/ MissingArgument(cls),
                      no_match |-> NoMatch(cls),
                      zero_matches |->
                          /\ cls.kind = "call" /\ cls.name = "recognize_face"
                          /\ cls.args.image_url # Absent
                          /\ env.net.ok /\ ~env.found.raised
                          /\ \A i \in DOMAIN env.found.results :
                                 env.found.results[i] = <<>>]
    /\ UNCHANGED <<now, recapVars, worker>>

NextDispatch ==
    \/ \E net \in ImgNet, found \in MatcherOutcomes(faces) :
           recognize_face_endpoint(net, found)
    \/ \E net \in BytesNet, ocr \in OcrOutcomes : extract_text_endpoint(net, ocr)
    \/ \E net \in ImgNet, identity \in Identities, io \in {"ok", "fail"} :
           save_face_endpoint(net, identity, io)
    \/ \E out \in GenOutcomes : describe_scene_endpoint(out)
    \/ \E cls \in ClassifierOutcomes : \E env \in QueryEnvs(cls, faces) :
           process_query(cls, env)

----------------------------------------------------------------------------

Init ==
    /\ now = 1
    /\ sceneDir = <<>>
    /\ pc = "idle"
    /\ entry = "none"
    /\ scenes = <<>>
    /\ idx = 1
    /\ scene_descriptions = <<>>
    /\ log = <<>>
    /\ result = NoResult
    /\ faces = {}
    /\ saved = {}
    /\ worker = [w \in 1..MaxWorkers |-> Idle]
    /\ req = [endpoint |-> "none", function |-> "none", failed |-> NoFailure,
              client_error |-> FALSE, no_match |-> FALSE, zero_matches |-> FALSE]
    /\ invoked = {}
    /\ resp = NoResp

NextRecap ==
    \/ Tick
    \/ \E net \in NetOutcomes : save_screenshot_endpoint(net)
    \/ \E e \in {"daily_recap", "query"}, date \in DateArgs : recap_begin(e, date)
    \/ \E out \in GenOutcomes : recap_scene(out)
    \/ \E out \in GenOutcomes : recap_retry(out)
    \/ \E out \in GenOutcomes : recap_summary(out)
    \/ \E out \in GenOutcomes : recap_summary_retry(out)

SpecRecap == Init /\ [][NextRecap]_vars

\* a started get_daily_recap keeps running: every generate_content call
\* returns or raises and every time.sleep ends
RecapStep ==
    \/ \E out \in GenOutcomes : recap_scene(out)
    \/ \E out \in GenOutcomes : recap_retry(out)
    \/ \E out \in GenOutcomes : recap_summary(out)
    \/ \E out \in GenOutcomes : recap_summary_retry(out)

SpecRecapFair == Init /\ [][NextRecap]_vars /\ WF_vars(RecapStep)

SpecFaces == Init /\ [][NextFaces]_vars

SpecDispatch == Init /\ [][NextDispatch]_vars

----------------------------------------------------------------------------
(* Reading the log of a recap *)

\* a stored file's name without directory and extension
before_jpg(path) == SubSeq(path, 2, Len(path) - 1)

RateLimited(e) == contains(e, <<"4", "2", "9">>)

IsGen(i) == i \in DOMAIN log /\ log[i].ev = "generate"
IsSceneCall(i) == IsGen(i) /\ log[i].image # None
IsSummaryCall(i) == IsGen(i) /\ log[i].image = None
IsSleep(i, secs) == i \in DOMAIN log /\ log[i].ev = "sleep" /\ log[i].secs = secs

\* position in the listing of the scene a call is about
SceneIndex(i) == CHOOSE k \in 1..Len(scenes) : scenes[k] = log[i].image

\* the generation calls of the log, in order
GenCalls == SelectSeq(log, LAMBDA ev : ev.ev = "generate")

\* the first generation call after position i, or 0
NextGen(i) ==
    IF \E j \in DOMAIN log : j > i /\ IsGen(j)
    THEN CHOOSE j \in DOMAIN log :
             /\ j > i /\ IsGen(j)
             /\ \A h \in DOMAIN log : (h > i /\ IsGen(h)) => j <= h
    ELSE 0

RateLimitedFirstAttempt(i) ==
    /\ IsSceneCall(i)
    /\ log[i].prompt = POV
    /\ ~log[i].out.ok
    /\ RateLimited(log[i].out.e)

\* the scene whose call at position i succeeded was collected and the recap
\* went on to the next scene, or to the summary after the last scene
CollectedAndContinued(i) ==
    LET k == SceneIndex(i)
        j == NextGen(i)
    IN  /\ Len(scene_descriptions) >= k
        /\ scene_descriptions[k] = log[i].out.text
        /\ IF j = 0
           THEN /\ result = NoResult
                /\ IF k < Len(scenes) THEN pc = "scene" /\ idx = k + 1
                   ELSE pc = "summary"
           ELSE IF k < Len(scenes)
           THEN log[j].image = scenes[k + 1] /\ log[j].prompt = POV
           ELSE IsSummaryCall(j)

\* C1: a per-scene call that fails with a rate-limit signal is followed by
\* the 30-unit backoff and then by exactly one retry of the same scene with
\* the prompt that lacks the point-of-view instruction; a successful retry
\* is collected and the recap continues; a scene is attempted at most twice
\* and is retried only after a rate-limit failure.
C1_RetryOnceSimplified ==
    /\ \A i \in DOMAIN log : RateLimitedFirstAttempt(i) =>
          /\ IsSleep(i + 1, RetryBackoff)
          /\ IF i + 2 > Len(log)
             THEN pc = "retry" /\ scenes[idx] = log[i].image
             ELSE /\ IsSceneCall(i + 2)
                  /\ log[i + 2].image = log[i].image
                  /\ log[i + 2].prompt = PLAIN
                  /\ \A t \in 1..Len(log[i + 2].prompt) :
                         log[i + 2].prompt[t] # POV[2]
                  /\ log[i + 2].out.ok => CollectedAndContinued(i + 2)
    /\ \A i \in DOMAIN log : (IsSceneCall(i) /\ log[i].prompt # POV) =>
          i > 2 /\ RateLimitedFirstAttempt(i - 2)
    /\ \A k \in 1..Len(scenes) :
          Cardinality({i \in DOMAIN log : IsSceneCall(i) /\ log[i].image = scenes[k]}) <= 2

C1_Witness ==
    /\ pc = "done"
    /\ result.status = "success"
    /\ Len(scenes) >= 2
    /\ \E i \in DOMAIN log :
          /\ RateLimitedFirstAttempt(i)
          /\ SceneIndex(i) = 1
          /\ IsSceneCall(i + 2) /\ log[i + 2].out.ok

\* no other request has been served since the recap in the log began
RecapIsLastRequest == req.function = "get_daily_recap"

\* a call at position i on which the recap has to give up: a failed retry,
\* or a first attempt that failed without a rate-limit signal
FatalSceneCall(i) ==
    /\ IsSceneCall(i)
    /\ ~log[i].out.ok
    /\ \/ log[i].prompt = PLAIN
       \/ ~RateLimited(log[i].out.e)

\* C2: a scene whose retry fails, or whose first call fails without a
\* rate-limit signal, ends the recap there: that call is the last event of
\* the recap (no later scene call, no summarizing call), and the result is
\* an error that has only a status and a message, without any collected
\* description and without scenes_used; the caller gets an error response.
C2_AbortDiscardsAll ==
    \A i \in DOMAIN log : FatalSceneCall(i) =>
        /\ i = Len(log)
        /\ pc = "done"
        /\ result.status = "error"
        /\ DOMAIN result = {"status", "message"}
        /\ \A k \in DOMAIN scene_descriptions :
               ~contains(result.message, scene_descriptions[k])
        /\ RecapIsLastRequest => (resp.code # 200 /\ "body" \notin DOMAIN resp)

C2_Witness ==
    /\ pc = "done"
    /\ RecapIsLastRequest
    /\ Len(scenes) >= 3
    /\ Len(scene_descriptions) >= 1
    /\ FatalSceneCall(Len(log))
    /\ log[Len(log)].prompt = PLAIN
    /\ SceneIndex(Len(log)) = 2

\* the date a recap request asks for
RequestedDate == IF req.date = None THEN req.today ELSE req.date

\* the stored scenes of the requested date, in listing order
StoredScenesOfDate ==
    SelectSeq(sceneDir, LAMBDA f : /\ Len(f) >= 1 + Len(RequestedDate)
                                   /\ f[1] = "scene_"
                                   /\ \A k \in 1..Len(RequestedDate) :
                                          f[k + 1] = RequestedDate[k])

AllCallsSucceeded == \A i \in DOMAIN log : IsGen(i) => log[i].out.ok

\* C3: a finished recap over N >= 1 scenes in which every generation call
\* succeeded made exactly N + 1 calls: one point-of-view call per stored
\* scene of the requested date, in listing order, then one summarizing call
\* over the N descriptions; it returns success with scenes_used equal to
\* those N scenes.
C3_NPlusOneCalls ==
    (pc = "done" /\ RecapIsLastRequest /\ scenes # <<>> /\ AllCallsSucceeded) =>
        LET N == Len(StoredScenesOfDate)
        IN  /\ N >= 1
            /\ Len(GenCalls) = N + 1
            /\ \A k \in 1..N :
                  /\ GenCalls[k].image = StoredScenesOfDate[k]
                  /\ GenCalls[k].prompt = POV
                  /\ scene_descriptions[k] = GenCalls[k].out.text
            /\ GenCalls[N + 1].image = None
            /\ GenCalls[N + 1].prompt = combined_prompt(scene_descriptions)
            /\ Len(scene_descriptions) = N
            /\ result.status = "success"
            /\ result.scenes_used = StoredScenesOfDate
            /\ result.description = GenCalls[N + 1].out.text

C3_Witness ==
    /\ pc = "done"
    /\ RecapIsLastRequest
    /\ Len(scenes) = 2
    /\ Len(sceneDir) = 3
    /\ AllCallsSucceeded
    /\ result.status = "success"

\* C10 as claimed: the 5-unit delay separates consecutive per-scene calls and
\* occurs nowhere else: before the first call on every scene but the first,
\* the previous event is the delay, and no delay follows the last scene.
C10_DelayOnlyBetweenScenes ==
    /\ \A i \in DOMAIN log :
          (IsSceneCall(i) /\ log[i].prompt = POV /\ SceneIndex(i) > 1) =>
              IsSleep(i - 1, InterCallDelay)
    /\ \A i \in DOMAIN log :
          IsSleep(i, InterCallDelay) =>
              (IsSceneCall(i - 1) /\ SceneIndex(i - 1) < Len(scenes))

\* C4 as claimed: a recap for a date without stored scenes makes no
\* generation call and returns the non-error outcome "not_found"; through
\* /query the caller gets an envelope whose result.status is "not_found".
C4_EmptyDateIsNotFound ==
    (pc = "done" /\ RecapIsLastRequest /\ scenes = <<>>) =>
        /\ log = <<>>
        /\ result.status = "not_found"
        /\ req.endpoint = "query" =>
              /\ resp.code = 200
              /\ resp.body.function = "get_daily_recap"
              /\ resp.body.result.status = "not_found"

----------------------------------------------------------------------------
(* The face store *)

\* the stored reference images of an identity
StoredFor(identity) == {f \in faces : before_jpg(f.path) = identity}

----------------------------------------------------------------------------
(* Requests and their responses *)

IsError(r) == r.code >= 400
ClientError(r) == r.code >= 400 /\ r.code < 500
ServerError(r) == r.code >= 500

\* a response whose status, or whose envelope's status, is "success"
StatusSuccess(r) ==
    /\ r.code = 200
    /\ \/ "status" \in DOMAIN r.body /\ r.body.status = "success"
       \/ "result" \in DOMAIN r.body /\ r.body.result.status = "success"

\* a 200 response that carries an empty match list
EmptyMatches(r) ==
    /\ r.code = 200
    /\ \/ "matches" \in DOMAIN r.body /\ r.body.matches = <<>>
       \/ /\ "result" \in DOMAIN r.body
          /\ "matches" \in DOMAIN r.body.result
          /\ r.body.result.matches = <<>>

\* C5 as claimed: a query for which the classifier returns no function call,
\* or a call outside the closed set, calls no adapter and is rejected with
\* the unsupported-function error that main.py:266 raises: a client error
\* whose detail says "Unsupported function".
C5_NoMatchIsUnsupportedFunction ==
    (req.endpoint = "query" /\ req.no_match) =>
        /\ invoked = {}
        /\ IsError(resp)
        /\ ClientError(resp)
        /\ contains(resp.detail, <<"Unsupported function">>)

\* C6 as claimed: an error caused by the client (unsupported function,
\* missing argument) is a 4xx and never a 5xx; an error caused by a failing
\* adapter or backend is a 5xx and never a 4xx.
C6_ErrorsClassifiedByCause ==
    IsError(resp) =>
        /\ req.client_error => ClientError(resp)
        /\ req.failed # NoFailure => ServerError(resp)

\* C7 as claimed: a face lookup that ran and matched nothing in the gallery
\* is reported as not_found to the caller of /recognize_face and of /query:
\* never as an error and never as a success with an empty match list.
C7_ZeroMatchesIsNotFound ==
    (req.function = "recognize_face" /\ req.zero_matches) =>
        /\ ~IsError(resp)
        /\ ~StatusSuccess(resp)
        /\ ~EmptyMatches(resp)

\* C8 as claimed: when a step under an adapter failed (download, decoding,
\* OCR, matcher, generator, write), the caller does not get a response that
\* has the status "success".
C8_NoFalseSuccess ==
    req.failed # NoFailure => ~StatusSuccess(resp)

----------------------------------------------------------------------------
(* The outcome of the adapter behind a /query request *)

AdapterInvoked == req.endpoint = "query" /\ invoked # {}

\* the adapter found nothing: a lookup without a gallery match, or a lookup
\* whose image could not be fetched
AdapterNotFound ==
    /\ AdapterInvoked
    /\ req.function = "recognize_face"
    /\ req.zero_matches \/ req.failed = "download"

\* the adapter could not do its work
AdapterFailure ==
    /\ AdapterInvoked
    /\ req.failed # NoFailure
    /\ ~AdapterNotFound

AdapterSuccess == AdapterInvoked /\ ~AdapterNotFound /\ ~AdapterFailure

\* C11 as claimed: behind /query, a successful adapter gives the envelope of
\* the resolved function with result.status "success", an adapter that found
\* nothing gives an envelope with result.status "not_found", a failed adapter
\* gives a transport error and no envelope, and only a failed adapter gives
\* a transport error.
C11_OutcomeToEnvelope ==
    AdapterInvoked =>
        /\ AdapterSuccess =>
              /\ resp.code = 200
              /\ resp.body.function = req.function
              /\ resp.body.result.status = "success"
        /\ AdapterNotFound =>
              /\ resp.code = 200
              /\ resp.body.function = req.function
              /\ resp.body.result.status = "not_found"
        /\ AdapterFailure => (IsError(resp) /\ "body" \notin DOMAIN resp)
        /\ IsError(resp) => AdapterFailure

\* the classifier named a supported function and left out a required argument
MissingArgumentRequest ==
    req.endpoint = "query" /\ req.client_error /\ ~req.no_match

\* C12 as claimed: a call that names a supported function without one of its
\* required arguments invokes no adapter and is rejected as an unsupported
\* function is: with an error whose detail says "Unsupported function".
C12_MissingArgumentIsNoMatch ==
    MissingArgumentRequest =>
        /\ invoked = {}
        /\ IsError(resp)
        /\ contains(resp.detail, <<"Unsupported function">>)

----------------------------------------------------------------------------
(* Termination of the recap *)

RecapRunning == pc \in {"scene", "retry", "summary", "summary_retry"}

\* the generation calls made so far stay within two per scene and two for
\* the summary
CallsBounded ==
    /\ \A k \in 1..Len(scenes) :
          Cardinality({i \in DOMAIN log : IsSceneCall(i) /\ log[i].image = scenes[k]}) <= 2
    /\ Cardinality({i \in DOMAIN log : IsSummaryCall(i)}) <= 2
    /\ Len(GenCalls) <= 2 * Len(scenes) + 2

\* C13: a recap over N scenes never makes more than two generation calls
\* for a scene, two for the summary and 2N + 2 in all, and a recap that is
\* running always comes to its return, whatever the generator answers.
C13_RecapTerminates ==
    /\ [](CallsBounded)
    /\ (RecapRunning ~> (pc = "done"))

\* a finished recap that used every allowed call: each of its scenes was
\* rate-limited once and so was the summary
C13_Witness ==
    /\ pc = "done"
    /\ Len(scenes) >= 2
    /\ Len(GenCalls) = 2 * Len(scenes) + 2
    /\ result.status = "success"

=============================================================================
